---- MODULE Spec2Model ----
(***************************************************************************)
(* Model of H5P.SpeechRecognition (src/scripts/h5p-speech-recognition.js)  *)
(* and of its button (src/scripts/h5p-speech-recognition-button.js),       *)
(* together with the part of the annyang engine the session drives:        *)
(* the command list, the callback lists per event name, start and abort.   *)
(*                                                                         *)
(* JavaScript values that may be undefined are kept distinct from false:   *)
(* this.listening is "undefined" until start() or stop() assigns it.       *)
(***************************************************************************)
EXTENDS Integers, Sequences, FiniteSets, TLC

VARIABLES
    params,         \* this.params: listenMode, showLabel, commands
    env,            \* host environment: window.annyang, navigator.mediaDevices
    probe,          \* getUserMedia promise: "pending", "resolved", "rejected"
    this,           \* fields of the SpeechRecognition object
    button,         \* DOM state of the SpeechRecognitionButton
    annyang,        \* state of the recognition engine
    binds,          \* number of start() runs that bound fresh handlers
    onResultCalls,  \* number of calls of callbacks.onResult so far
    threw,          \* the last operation raised an exception to its caller
    lastOp,         \* the operation that produced the current state
    lastFirings,    \* onResult calls made by the last operation
    clicks,         \* number of clicks on the button so far
    quiet,          \* no caller start()/stop() and no engine event so far
    reported,       \* what the last operation passed to callbacks.onResult
    continuations,  \* runs of the two continuations of the probe so far
    callerStarted,  \* the caller has called start() itself
    heard           \* candidate phrases of the event the last operation handled

vars == <<params, env, probe, this, button, annyang, binds, onResultCalls,
          threw, lastOp, lastFirings, clicks, quiet, reported,
          continuations, callerStarted, heard>>

(***************************************************************************)
(* Bounds of the exploration.                                              *)
(***************************************************************************)
MaxBinds == 3
MaxClicks == 3
MaxResults == 3

(***************************************************************************)
(* Program constants.                                                      *)
(***************************************************************************)
LISTEN_MODE_BUTTON == 0
LISTEN_MODE_CONTINUOUS == 1
LISTEN_MODE_ONCE == 2

ListenModes == {LISTEN_MODE_BUTTON, LISTEN_MODE_CONTINUOUS, LISTEN_MODE_ONCE}

L10nListening == "Listening ..."
L10nNoMicrophoneAccess == "No microphone access"
L10nPushToSpeak == "Push to speak"

\* The command lists a widget is configured with in this exploration.
Phrases == {"go", "halt"}
CommandSets == {{}, {"go", "halt"}}

\* What the engine may hear: the candidate phrases of one utterance.
PhraseLists == {<<"go">>, <<"walk">>, <<"walk", "go">>}

\* JavaScript null.
Null == "null"

ErrorEvents == {"errorNetwork", "errorPermissionBlocked", "errorPermissionDenied"}
ResultEvents == {"resultMatch", "resultNoMatch"}
EventNames == ResultEvents \cup ErrorEvents

\* A bound function is identified by the method it binds and the start() run
\* that created it; Undefined is a field that was never assigned.
Undefined == <<"undefined", 0>>
Bound(method, n) == <<method, n>>

(***************************************************************************)
(* The world an operation works on: the object, its button, the engine.    *)
(***************************************************************************)
World ==
    [this |-> this, button |-> button, annyang |-> annyang, binds |-> binds,
     calls |-> onResultCalls, threw |-> FALSE, reported |-> <<>>,
     continuations |-> continuations]

HasButton(p) == p.listenMode = LISTEN_MODE_BUTTON

(***************************************************************************)
(* SpeechRecognitionButton                                                 *)
(***************************************************************************)
setLabel(w, text) ==
    [w EXCEPT !.button.innerText = IF params.showLabel THEN text ELSE "",
              !.button.title = text]

setActive(w) ==
    setLabel([w EXCEPT !.button.classListening = TRUE], L10nListening)

setInactive(w) ==
    setLabel([w EXCEPT !.button.classListening = FALSE], L10nPushToSpeak)

enable(w) ==
    [w EXCEPT !.button.classDisabled = FALSE, !.button.disabled = FALSE]

disable(w) ==
    [w EXCEPT !.button.classDisabled = TRUE, !.button.disabled = TRUE]

(***************************************************************************)
(* annyang: the operations the session calls.                              *)
(***************************************************************************)
setLanguage(w, language) == [w EXCEPT !.annyang.language = language]

addCommands(w, commands) ==
    [w EXCEPT !.annyang.commands =
        [p \in Phrases |-> IF p \in commands THEN @[p] + 1 ELSE @[p]]]

\* Mutant of removeCommands: the commands stay registered.
removeCommands_Keep(w) == w

removeCommands(w) ==
    [w EXCEPT !.annyang.commands = [p \in Phrases |-> 0]]

addCallback(w, type, callback) ==
    [w EXCEPT !.annyang.callbacks[type] = Append(@, callback)]

removeCallback(w, type, callback) ==
    [w EXCEPT !.annyang.callbacks[type] =
        IF callback = Undefined
        THEN <<>>
        ELSE SelectSeq(@, LAMBDA cb : cb # callback)]

annyangStart(w) == [w EXCEPT !.annyang.running = TRUE]

abort(w) == [w EXCEPT !.annyang.running = FALSE]

(***************************************************************************)
(* SpeechRecognition                                                       *)
(***************************************************************************)
isListening(w) == w.this.listening

startListening(w) ==
    LET n  == w.binds + 1
        w1 == [w EXCEPT !.this.annyang = TRUE, !.this.listening = "true"]
        w2 == IF HasButton(params) THEN setActive(w1) ELSE w1
        w3 == addCommands(setLanguage(w2, params.language), params.commands)
        hm == Bound("handleResultMatch", n)
        w4 == addCallback([w3 EXCEPT !.this.handleResultMatchHandler = hm],
                          "resultMatch", hm)
        hn == Bound("handleResultNoMatch", n)
        w5 == addCallback([w4 EXCEPT !.this.handleResultNoMatchHandler = hn],
                          "resultNoMatch", hn)
        he == Bound("handleError", n)
        w6 == [w5 EXCEPT !.this.handleErrorHandler = he]
        w7 == addCallback(w6, "errorNetwork", he)
        w8 == addCallback(w7, "errorPermissionBlocked", he)
        w9 == addCallback(w8, "errorPermissionDenied", he)
    IN  annyangStart([w9 EXCEPT !.binds = n])

\* Mutant of start: the missing engine is not noticed.
start_Unguarded(w) == startListening(w)

start(w) ==
    IF ~env.annyang
    THEN w
    ELSE startListening(w)

stop(w) ==
    LET w1 == [w EXCEPT !.this.listening = "false"]
        w2 == IF HasButton(params) THEN setInactive(w1) ELSE w1
    IN  IF ~w2.this.annyang
        THEN [w2 EXCEPT !.threw = TRUE]
        ELSE LET w3 == removeCommands(w2)
                 w4 == removeCallback(w3, "resultMatch",
                                      w3.this.handleResultMatchHandler)
                 w5 == removeCallback(w4, "resultNoMatch",
                                      w4.this.handleResultNoMatchHandler)
                 w6 == removeCallback(w5, "errorNetwork",
                                      w5.this.handleErrorHandler)
                 w7 == removeCallback(w6, "errorPermissionBlocked",
                                      w6.this.handleErrorHandler)
                 w8 == removeCallback(w7, "errorPermissionDenied",
                                      w7.this.handleErrorHandler)
             IN  abort(w8)

\* Mutant of handleMicrophoneNotAvailable: the string is read from where the
\* constructor looks for it (this.params.noMicrophoneAccess), which is unset.
handleMicrophoneNotAvailable_UnsetString(w) ==
    LET w1 == [w EXCEPT !.continuations.notAvailable = @ + 1]
    IN  IF HasButton(params)
        THEN setLabel([w1 EXCEPT !.button.classNoMicrophone = TRUE],
                      "undefined")
        ELSE w1

handleMicrophoneNotAvailable(w) ==
    LET w1 == [w EXCEPT !.continuations.notAvailable = @ + 1]
    IN  IF HasButton(params)
        THEN setLabel([w1 EXCEPT !.button.classNoMicrophone = TRUE],
                      L10nNoMicrophoneAccess)
        ELSE w1

\* Mutant of handleMicrophoneAvailable: only CONTINUOUS mode starts by itself.
handleMicrophoneAvailable_ContinuousOnly(w) ==
    LET w0 == [w EXCEPT !.continuations.available = @ + 1]
        w1 == IF params.listenMode = LISTEN_MODE_BUTTON THEN enable(w0) ELSE w0
    IN  IF params.listenMode = LISTEN_MODE_CONTINUOUS THEN start(w1) ELSE w1

handleMicrophoneAvailable(w) ==
    LET w0 == [w EXCEPT !.continuations.available = @ + 1]
        w1 == IF params.listenMode = LISTEN_MODE_BUTTON THEN enable(w0) ELSE w0
    IN  IF \/ params.listenMode = LISTEN_MODE_CONTINUOUS
           \/ params.listenMode = LISTEN_MODE_ONCE
        THEN start(w1)
        ELSE w1

\* Mutant of handleButtonClicked: a click always starts.
handleButtonClicked_AlwaysStart(w) == start(setActive(w))

\* Mutant of handleButtonClicked: the test is written as "not false".
handleButtonClicked_UnlessFalse(w) ==
    IF isListening(w) # "false"
    THEN stop(setInactive(w))
    ELSE start(setActive(w))

handleButtonClicked(w) ==
    IF isListening(w) = "true"
    THEN stop(setInactive(w))
    ELSE start(setActive(w))

\* SpeechRecognitionUtil.extend: the keys given override the defaults.
extend(defaults, given) ==
    [k \in DOMAIN defaults \cup DOMAIN given |->
        IF k \in DOMAIN given THEN given[k] ELSE defaults[k]]

\* callbacks.onResult: the call is recorded with what the callback can
\* observe of the session while it runs.
onResult(w, results) ==
    [w EXCEPT !.calls = @ + 1,
              !.reported = Append(@,
                  [result |-> results,
                   listening |-> isListening(w),
                   installed |-> \A e \in EventNames :
                                    w.annyang.callbacks[e] # <<>>])]

\* Mutant of reportResults: said defaults to the first candidate phrase.
reportResults_FirstPhrase(w, results) ==
    onResult(w, extend([command |-> Null, match |-> Null, phrases |-> <<>>,
                        said |-> IF Len(results.phrases) >= 1
                                 THEN results.phrases[1] ELSE Null],
                       results))

reportResults(w, results) ==
    onResult(w, extend([command |-> Null, match |-> Null, phrases |-> <<>>,
                        said |-> IF Len(results.phrases) = 1
                                 THEN results.phrases[1] ELSE Null],
                       results))

\* Mutants of checkStop: ONCE mode forgotten; CONTINUOUS mode stopped too.
checkStop_ButtonOnly(w) ==
    IF params.listenMode = LISTEN_MODE_BUTTON THEN stop(w) ELSE w

checkStop_Always(w) == stop(w)

checkStop(w) ==
    IF \/ params.listenMode = LISTEN_MODE_BUTTON
       \/ params.listenMode = LISTEN_MODE_ONCE
    THEN stop(w)
    ELSE w

handleResultMatch(w, said, command, phrases) ==
    checkStop(reportResults(w,
                  [command |-> command, match |-> TRUE, phrases |-> phrases,
                   said |-> said]))

handleResultNoMatch(w, phrases) ==
    checkStop(reportResults(w, [match |-> FALSE, phrases |-> phrases]))

\* Mutant of handleError: CONTINUOUS mode keeps listening through an error.
handleError_NotContinuous(w) ==
    IF params.listenMode = LISTEN_MODE_CONTINUOUS THEN w ELSE stop(w)

handleError(w) == stop(w)

\* The function a bound handler runs, by the method it was bound from.
\* args are the arguments annyang passes with the event.
Call(w, callback, args) ==
    CASE callback[1] = "handleResultMatch" ->
            handleResultMatch(w, args.said, args.command, args.phrases)
      [] callback[1] = "handleResultNoMatch" ->
            handleResultNoMatch(w, args.phrases)
      [] callback[1] = "handleError" -> handleError(w)
      [] OTHER -> w

\* annyang calls every callback that was installed for the event when the
\* event was raised, in the order of installation.
RECURSIVE invokeCallbacks(_, _, _)
invokeCallbacks(w, callbacks, args) ==
    IF callbacks = <<>> \/ w.threw
    THEN w
    ELSE invokeCallbacks(Call(w, Head(callbacks), args), Tail(callbacks), args)

\* The candidate phrases that are registered commands, in the order heard.
Matching(w, phrases) ==
    SelectSeq(phrases, LAMBDA p : p \in Phrases /\ w.annyang.commands[p] > 0)

\* The arguments of an event: resultMatch(said, command, phrases) for the
\* first candidate that is a command, resultNoMatch(phrases) when none is.
EventArgs(w, e, phrases) ==
    IF e = "resultMatch"
    THEN [said |-> Head(Matching(w, phrases)),
          command |-> Head(Matching(w, phrases)), phrases |-> phrases]
    ELSE [phrases |-> phrases]

(***************************************************************************)
(* Construction.                                                           *)
(***************************************************************************)
NewThis ==
    [listening |-> "undefined", annyang |-> FALSE,
     handleResultMatchHandler |-> Undefined,
     handleResultNoMatchHandler |-> Undefined,
     handleErrorHandler |-> Undefined]

NewButton ==
    [classListening |-> FALSE, classDisabled |-> FALSE,
     classNoMicrophone |-> FALSE, disabled |-> FALSE,
     innerText |-> "", title |-> ""]

NewAnnyang ==
    [language |-> "", commands |-> [p \in Phrases |-> 0],
     callbacks |-> [e \in EventNames |-> <<>>], running |-> FALSE]

checkMicrophoneSupport(w) ==
    IF ~env.mediaDevices THEN handleMicrophoneNotAvailable(w) ELSE w

constructor ==
    LET w0 == [this |-> NewThis, button |-> NewButton, annyang |-> NewAnnyang,
               binds |-> 0, calls |-> 0, threw |-> FALSE, reported |-> <<>>,
               continuations |-> [available |-> 0, notAvailable |-> 0]]
        w1 == IF HasButton(params)
              THEN disable(setLabel(w0, L10nPushToSpeak))
              ELSE w0
    IN  checkMicrophoneSupport(w1)

Init ==
    /\ params \in [listenMode : ListenModes, showLabel : BOOLEAN,
                   commands : CommandSets, language : {"en-US"}]
    /\ env \in [annyang : BOOLEAN, mediaDevices : BOOLEAN]
    /\ probe = IF env.mediaDevices THEN "pending" ELSE "rejected"
    /\ this = constructor.this
    /\ button = constructor.button
    /\ annyang = constructor.annyang
    /\ binds = 0
    /\ onResultCalls = 0
    /\ threw = FALSE
    /\ lastOp = "constructor"
    /\ lastFirings = 0
    /\ clicks = 0
    /\ quiet = TRUE
    /\ reported = <<>>
    /\ continuations = constructor.continuations
    /\ callerStarted = FALSE
    /\ heard = <<>>

(***************************************************************************)
(* Steps: the state after an operation has run to its end.                 *)
(***************************************************************************)
Commit(w, op) ==
    /\ w.binds <= MaxBinds
    /\ w.calls <= MaxResults
    /\ this' = w.this
    /\ button' = w.button
    /\ annyang' = w.annyang
    /\ binds' = w.binds
    /\ onResultCalls' = w.calls
    /\ threw' = w.threw
    /\ lastOp' = op
    /\ lastFirings' = w.calls - onResultCalls
    /\ reported' = w.reported
    /\ continuations' = w.continuations
    /\ UNCHANGED <<params, env>>

\* getUserMedia(...).then(handleMicrophoneAvailable).catch(handleMicrophoneNotAvailable)
\* Mutant of thenCatch: the rejection handler is chained as a finally.
thenCatch_Finally(w) ==
    handleMicrophoneNotAvailable(handleMicrophoneAvailable(w))

thenCatch(w) ==
    LET w1 == handleMicrophoneAvailable(w)
    IN  IF w1.threw
        THEN handleMicrophoneNotAvailable([w1 EXCEPT !.threw = FALSE])
        ELSE w1

ProbeResolved ==
    /\ probe = "pending"
    /\ probe' = "resolved"
    /\ Commit(thenCatch(World), "probeResolved")
    /\ UNCHANGED <<clicks, quiet, callerStarted>>
    /\ heard' = <<>>

ProbeRejected ==
    /\ probe = "pending"
    /\ probe' = "rejected"
    /\ Commit(handleMicrophoneNotAvailable(World), "probeRejected")
    /\ UNCHANGED <<clicks, quiet, callerStarted>>
    /\ heard' = <<>>

\* A disabled button element dispatches no click event.
Click ==
    /\ HasButton(params)
    /\ ~button.disabled
    /\ clicks < MaxClicks
    /\ clicks' = clicks + 1
    /\ Commit(handleButtonClicked(World), "click")
    /\ UNCHANGED <<probe, quiet, callerStarted>>
    /\ heard' = <<>>

CallerStart ==
    /\ quiet' = FALSE
    /\ callerStarted' = TRUE
    /\ heard' = <<>>
    /\ Commit(start(World), "start")
    /\ UNCHANGED <<probe, clicks>>

CallerStop ==
    /\ quiet' = FALSE
    /\ Commit(stop(World), "stop")
    /\ UNCHANGED <<probe, clicks, callerStarted>>
    /\ heard' = <<>>

enableButton(w) ==
    IF HasButton(params) THEN enable(w) ELSE [w EXCEPT !.threw = TRUE]

disableButton(w) ==
    IF HasButton(params) THEN disable(w) ELSE [w EXCEPT !.threw = TRUE]

CallerEnableButton ==
    /\ Commit(enableButton(World), "enableButton")
    /\ UNCHANGED <<probe, clicks, quiet, callerStarted>>
    /\ heard' = <<>>

CallerDisableButton ==
    /\ Commit(disableButton(World), "disableButton")
    /\ UNCHANGED <<probe, clicks, quiet, callerStarted>>
    /\ heard' = <<>>

\* The running engine raises an event: a match when a candidate phrase of
\* the utterance is a registered command, a no-match when none is, or an
\* error (which carries no phrases).
EngineEvent ==
    \E e \in EventNames, phrases \in PhraseLists \cup {<<>>} :
        /\ annyang.running
        /\ e = "resultMatch" => Matching(World, phrases) # <<>>
        /\ e = "resultNoMatch" =>
                (phrases # <<>> /\ Matching(World, phrases) = <<>>)
        /\ e \in ErrorEvents => phrases = <<>>
        /\ quiet' = FALSE
        /\ heard' = phrases
        /\ Commit(invokeCallbacks(World, annyang.callbacks[e],
                                  EventArgs(World, e, phrases)), e)
        /\ UNCHANGED <<probe, clicks, callerStarted>>

Next ==
    \/ ProbeResolved
    \/ ProbeRejected
    \/ Click
    \/ CallerStart
    \/ CallerStop
    \/ CallerEnableButton
    \/ CallerDisableButton
    \/ EngineEvent

Spec == Init /\ [][Next]_vars

(***************************************************************************)
(* Properties                                                              *)
(***************************************************************************)
Listening == isListening(World) = "true"
OddClicks == clicks % 2 = 1
AutoStartMode ==
    params.listenMode \in {LISTEN_MODE_CONTINUOUS, LISTEN_MODE_ONCE}
AutoStopMode ==
    params.listenMode \in {LISTEN_MODE_BUTTON, LISTEN_MODE_ONCE}
NoCallbacks == \A e \in EventNames : annyang.callbacks[e] = <<>>

\* C1 as stated: in BUTTON mode after a successful probe, isListening() is
\* true exactly when the number of clicks so far is odd.
C1_ParityOfClicks ==
    (HasButton(params) /\ probe = "resolved") => (Listening <=> OddClicks)

\* C1 amended: in BUTTON mode with the engine available, every click toggles
\* isListening(); and after a successful probe, as long as no engine event
\* and no caller start()/stop() has happened, isListening() is true exactly
\* when the number of clicks is odd (so it is not true before the first).
C1_ClickToggles ==
    /\ []((HasButton(params) /\ probe = "resolved" /\ env.annyang /\ quiet)
            => (Listening <=> OddClicks))
    /\ [][(clicks' = clicks + 1 /\ env.annyang)
            => ((this'.listening = "true") <=> (this.listening # "true"))]_vars

C1_Witness ==
    /\ HasButton(params) /\ probe = "resolved" /\ env.annyang /\ quiet
    /\ lastOp = "click" /\ clicks = 2 /\ isListening(World) = "false"

\* C2 as stated: in CONTINUOUS or ONCE mode, the state right after the
\* probe has succeeded has isListening() true.
C2_AutoStartAlways ==
    (lastOp = "probeResolved" /\ AutoStartMode) => Listening

\* C2 amended: in CONTINUOUS or ONCE mode with the recognition engine
\* available, the state right after the probe has succeeded has
\* isListening() true, without a click or a caller start().
C2_AutoStart ==
    (lastOp = "probeResolved" /\ AutoStartMode /\ env.annyang) => Listening

C2_Witness ==
    /\ lastOp = "probeResolved" /\ params.listenMode = LISTEN_MODE_ONCE
    /\ quiet /\ clicks = 0 /\ Listening /\ annyang.running

\* C3: in ONCE and BUTTON modes, the state right after a match or no-match
\* event has isListening() false.
C3_ResultStops ==
    (lastOp \in ResultEvents /\ AutoStopMode) => isListening(World) = "false"

C3_Witness ==
    /\ lastOp = "resultMatch" /\ params.listenMode = LISTEN_MODE_ONCE
    /\ lastFirings = 1 /\ isListening(World) = "false" /\ ~annyang.running

\* C4: in CONTINUOUS mode, a match or no-match event delivered to a
\* listening session changes neither the listening flag nor any field of the
\* session, and leaves the engine's commands, callbacks and capture as they
\* were.
C4_ContinuousKeepsListening ==
    [][(lastOp' \in ResultEvents /\ this.listening = "true"
        /\ params.listenMode = LISTEN_MODE_CONTINUOUS)
         => (this' = this /\ annyang' = annyang /\ button' = button)]_vars

C4_Witness ==
    /\ lastOp = "resultMatch" /\ params.listenMode = LISTEN_MODE_CONTINUOUS
    /\ onResultCalls = 2 /\ binds = 1 /\ Listening /\ annyang.running

\* C5: in every mode the state right after an error event has isListening()
\* false, and no engine event ever turns listening on: it goes on only by a
\* click, a caller start() or the single auto-start of the probe.
C5_ErrorStops ==
    /\ [](lastOp \in ErrorEvents => isListening(World) = "false")
    /\ [][(this.listening # "true" /\ this'.listening = "true")
            => lastOp' \in {"click", "start", "probeResolved"}]_vars

C5_Witness ==
    /\ lastOp = "errorNetwork" /\ params.listenMode = LISTEN_MODE_CONTINUOUS
    /\ isListening(World) = "false" /\ ~annyang.running

\* C6 as stated, in its weakest reading (not listening, be it false or
\* undefined): once the probe has rejected, isListening() is never true.
C6_RejectedNeverListens == probe = "rejected" => ~Listening

\* C7 as stated: right after construction isListening() returns false.
C7_FalseAfterConstruction ==
    lastOp = "constructor" => isListening(World) = "false"

\* C8 as stated: whenever the last of the start() and stop() calls was a
\* stop() that followed a start(), the engine holds no callback.
C8_NoHandlerAfterStop ==
    (isListening(World) = "false" /\ this.annyang) => NoCallbacks

\* C9 as stated: a match or no-match event calls onResult exactly once, and
\* an error event never calls it.
C9_OneResultPerUtterance ==
    /\ lastOp \in ResultEvents => lastFirings = 1
    /\ lastOp \in ErrorEvents => lastFirings = 0

\* C10: a start() called while the recognition engine is unavailable changes
\* no field of the session, of the button or of the engine, calls nothing
\* back and raises no exception.
C10_StartWithoutEngine ==
    [][(lastOp' = "start" /\ ~env.annyang)
         => (/\ this' = this /\ button' = button /\ annyang' = annyang
             /\ onResultCalls' = onResultCalls /\ ~threw')]_vars

C10_Witness ==
    /\ lastOp = "start" /\ ~env.annyang /\ ~threw
    /\ button.classListening /\ isListening(World) = "false"

JustRejected ==
    lastOp = "probeRejected" \/ (lastOp = "constructor" /\ ~env.mediaDevices)
Results == {reported[i].result : i \in 1..Len(reported)}
SomeCommand == \E p \in Phrases : annyang.commands[p] > 0
SelfTriggered == {"click", "probeResolved", "probeRejected"} \cup EventNames

\* C11 as stated: in BUTTON mode, the state right after the probe has
\* rejected (or after construction without a media API) shows the
\* no-microphone string as the button's label.
C11_LabelIsNoMicrophone ==
    (HasButton(params) /\ JustRejected)
        => button.innerText = L10nNoMicrophoneAccess

\* C11 amended: in BUTTON mode, the state right after the probe has rejected
\* (or after construction without a media API) has the no-microphone string
\* as the button's title, and as its visible text when showLabel is true;
\* with showLabel false the visible text is empty.
C11_TitleIsNoMicrophone ==
    (HasButton(params) /\ JustRejected)
        => /\ button.title = L10nNoMicrophoneAccess
           /\ button.innerText =
                IF params.showLabel THEN L10nNoMicrophoneAccess ELSE ""

C11_Witness ==
    /\ HasButton(params) /\ lastOp = "probeRejected" /\ ~params.showLabel
    /\ button.title = L10nNoMicrophoneAccess /\ button.innerText = ""
    /\ button.classNoMicrophone

\* C12: every result passed to onResult has the four fields; phrases is the
\* candidate list of the event; a match has match true and carries the
\* command and what was said; a no-match has match false, command null, and
\* said equal to the only candidate when there is exactly one, null
\* otherwise.
C12_ResultDefaults ==
    lastOp \in ResultEvents =>
        \A r \in Results :
            /\ DOMAIN r = {"command", "match", "phrases", "said"}
            /\ r.phrases = heard
            /\ lastOp = "resultMatch" =>
                   /\ r.match = TRUE
                   /\ r.command \in params.commands
                   /\ r.said = r.command
            /\ lastOp = "resultNoMatch" =>
                   /\ r.match = FALSE
                   /\ r.command = Null
                   /\ r.said = IF Len(r.phrases) = 1
                               THEN r.phrases[1] ELSE Null

C12_Witness ==
    /\ lastOp = "resultNoMatch" /\ Len(reported) = 1
    /\ reported[1].result.phrases = <<"walk", "go">>
    /\ reported[1].result.said = Null

\* C13: the engine holds registered commands, or is capturing, only while
\* listening is true; so after a stop() it has no command and is aborted.
C13_CommandsOnlyWhileListening ==
    (SomeCommand \/ annyang.running) => Listening

C13_Witness ==
    /\ lastOp = "stop" /\ ~threw /\ binds = 2 /\ params.commands # {}
    /\ ~SomeCommand /\ ~annyang.running /\ isListening(World) = "false"

\* C14 as stated: whenever onResult runs, the session is still listening and
\* its handlers are still installed.
C14_ListeningDuringOnResult ==
    \A i \in 1..Len(reported) :
        reported[i].listening = "true" /\ reported[i].installed

\* C15: while the probe is pending no continuation has run; once it has
\* resolved, handleMicrophoneAvailable has run once and
\* handleMicrophoneNotAvailable never; once it has rejected (or the media
\* API is absent), the reverse; and a settled probe never settles again.
C15_ExactlyOneContinuation ==
    /\ [](continuations =
            CASE probe = "pending"  -> [available |-> 0, notAvailable |-> 0]
              [] probe = "resolved" -> [available |-> 1, notAvailable |-> 0]
              [] probe = "rejected" -> [available |-> 0, notAvailable |-> 1])
    /\ [][probe # "pending" => probe' = probe]_vars

C15_Witness ==
    /\ probe = "resolved" /\ AutoStartMode /\ Listening
    /\ continuations = [available |-> 1, notAvailable |-> 0]

\* C16 as stated: in BUTTON mode the button shows the listening indicator
\* exactly when isListening() is true.
C16_IndicatorIffListening ==
    HasButton(params) => (button.classListening <=> Listening)

\* C17 as stated: the engine holds at most one handler of the session per
\* event name, and none while isListening() is not true.
C17_AtMostOneHandler ==
    /\ \A e \in EventNames : Len(annyang.callbacks[e]) <= 1
    /\ ~Listening => NoCallbacks

\* C18: whenever listening is true the engine reference is set, and no
\* click, probe outcome or engine event ends in an exception: each stop()
\* the session triggers itself runs after a successful start().
C18_SelfStopAfterStart ==
    /\ Listening => this.annyang
    /\ lastOp \in SelfTriggered => ~threw

C18_Witness ==
    /\ lastOp = "click" /\ ~threw /\ this.annyang /\ ~callerStarted
    /\ isListening(World) = "false" /\ ~annyang.running

\* C19: in ONCE mode, as long as the caller has not called start() itself,
\* onResult has been called at most once, and once it has been called the
\* session is not listening, the engine is aborted and holds no handler.
C19_OnceReportsOnce ==
    (params.listenMode = LISTEN_MODE_ONCE /\ ~callerStarted)
        => /\ onResultCalls <= 1
           /\ onResultCalls = 1 =>
                (~Listening /\ ~annyang.running /\ NoCallbacks)

C19_Witness ==
    /\ params.listenMode = LISTEN_MODE_ONCE /\ ~callerStarted
    /\ onResultCalls = 1 /\ lastOp = "stop" /\ isListening(World) = "false"

====
